---- MODULE Spec2Model ----
(***************************************************************************)
(* A model of A1.py: the lambda-expression tokenizer (parse_tokens and     *)
(* parse_tokens_rec), the associativity transform (add_associativity) and  *)
(* the parse tree builder (build_parse_tree).                               *)
(*                                                                         *)
(* A Python str is a sequence of one-character strings, a token is such a  *)
(* sequence, a token list is a sequence of tokens.  Indices inside the     *)
(* operators are the 0-based indices of the source; At and Slice convert.  *)
(***************************************************************************)
EXTENDS Integers, Sequences, FiniteSets, TLC

VARIABLES pc, input, mode, result, out, again, toks, tree

vars == <<pc, input, mode, result, out, again, toks, tree>>

(***************************************************************************)
(* Bounds of the checked instances.                                        *)
(***************************************************************************)
\* longest free part of an input string
MaxLen == 4
\* longest token list handed to add_associativity
MaxChain == 4
\* longest token list handed to build_parse_tree
MaxToks == 5

(***************************************************************************)
(* Character classes (alphabet_chars, numeric_chars, var_chars).           *)
(***************************************************************************)
alphabet_chars ==
  {"a", "b", "c", "d", "e", "f", "g", "h", "i", "j", "k", "l", "m",
   "n", "o", "p", "q", "r", "s", "t", "u", "v", "w", "x", "y", "z",
   "A", "B", "C", "D", "E", "F", "G", "H", "I", "J", "K", "L", "M",
   "N", "O", "P", "Q", "R", "S", "T", "U", "V", "W", "X", "Y", "Z"}
numeric_chars == {"0", "1", "2", "3", "4", "5", "6", "7", "8", "9"}
var_chars == alphabet_chars \cup numeric_chars
\* the characters str.strip() removes, of those the checked inputs contain
Whitespace == {" ", "\t"}

BSLASH == <<"\\">>
LPAR == <<"(">>
RPAR == <<")">>

\* the association_type values: None, the two directions, an unknown one
None == "None"
Modes == {None, "left", "right", "asdf"}
\* Python truthiness of association_type
Truthy(association_type) == association_type # None

(***************************************************************************)
(* Python string primitives.                                               *)
(***************************************************************************)
\* s[i]
At(s, i) == s[i + 1]
\* s[a:b] for 0 <= a, b <= len(s)
Slice(s, a, b) == SubSeq(s, a + 1, b)
\* s[a:]
From(s, a) == SubSeq(s, a + 1, Len(s))

RECURSIVE LStrip(_)
LStrip(s) ==
  IF Len(s) > 0 /\ Head(s) \in Whitespace THEN LStrip(Tail(s)) ELSE s

RECURSIVE RStrip(_)
RStrip(s) ==
  IF Len(s) > 0 /\ s[Len(s)] \in Whitespace
  THEN RStrip(SubSeq(s, 1, Len(s) - 1)) ELSE s

\* str.strip()
Strip(s) == RStrip(LStrip(s))

\* str.split(" "): every single space separates, so two adjacent spaces
\* give an empty piece
RECURSIVE Split(_)
Split(s) ==
  IF \E i \in 1..Len(s) : s[i] = " "
  THEN LET i == CHOOSE k \in 1..Len(s) :
                  s[k] = " " /\ \A j \in 1..(k - 1) : s[j] # " "
       IN <<SubSeq(s, 1, i - 1)>> \o Split(SubSeq(s, i + 1, Len(s)))
  ELSE <<s>>

\* sep.join(tokens)
RECURSIVE JoinWith(_, _)
JoinWith(sep, tokens) ==
  IF Len(tokens) = 0 THEN <<>>
  ELSE IF Len(tokens) = 1 THEN tokens[1]
  ELSE tokens[1] \o <<sep>> \o JoinWith(sep, Tail(tokens))

(***************************************************************************)
(* add_associativity                                                       *)
(***************************************************************************)
\* the warning printed for an unknown association type
Warning(association_type) ==
  [kind |-> "Warning", original |-> <<>>, pos |-> 0,
   msg |-> "unknown association type", arg |-> association_type]

\* the base case taken one element too far
RECURSIVE add_associativity_M(_, _)
add_associativity_M(s, association_type) ==
  IF Len(s) <= 2 THEN [toks |-> s, out |-> <<>>]
  ELSE IF association_type = "left"
  THEN LET group == add_associativity_M(SubSeq(s, 1, Len(s) - 1), association_type)
       IN [toks |-> <<LPAR>> \o group.toks \o <<s[Len(s)]>> \o <<RPAR>>,
           out |-> group.out]
  ELSE IF association_type = "right"
  THEN LET group == add_associativity_M(Tail(s), association_type)
       IN [toks |-> <<LPAR>> \o <<s[1]>> \o group.toks \o <<RPAR>>,
           out |-> group.out]
  ELSE [toks |-> s, out |-> <<Warning(association_type)>>]

\* the pair (returned list, lines printed)
RECURSIVE add_associativity(_, _)
add_associativity(s, association_type) ==
  IF Len(s) <= 1 THEN [toks |-> s, out |-> <<>>]
  ELSE IF association_type = "left"
  THEN LET group == add_associativity(SubSeq(s, 1, Len(s) - 1), association_type)
       IN [toks |-> <<LPAR>> \o group.toks \o <<s[Len(s)]>> \o <<RPAR>>,
           out |-> group.out]
  ELSE IF association_type = "right"
  THEN LET group == add_associativity(Tail(s), association_type)
       IN [toks |-> <<LPAR>> \o <<s[1]>> \o group.toks \o <<RPAR>>,
           out |-> group.out]
  ELSE [toks |-> s, out |-> <<Warning(association_type)>>]

(***************************************************************************)
(* parse_tokens_rec                                                        *)
(*                                                                         *)
(* A call returns [ok, toks, out]: ok is FALSE for the return value False, *)
(* toks is the returned list, out the lines the call printed, in order.    *)
(***************************************************************************)
\* the line "Error in [original] at position p: msg"; arg is the character
\* or word the message quotes
Error(original, p, msg, arg) ==
  [kind |-> "Error", original |-> original, pos |-> p, msg |-> msg, arg |-> arg]

\* print(line); return False
Fail(line) == [ok |-> FALSE, toks |-> <<>>, out |-> <<line>>]

\* while end_index < len(s) and s[end_index] in chars: end_index += 1
RECURSIVE ScanWhile(_, _, _)
ScanWhile(s, end_index, chars) ==
  IF end_index < Len(s) /\ At(s, end_index) \in chars
  THEN ScanWhile(s, end_index + 1, chars) ELSE end_index

\* the scan for the bracket that closes nested_tokens[0]: the value of
\* bracket_index when the loop ends
RECURSIVE BracketIndex(_, _, _)
BracketIndex(nested_tokens, bracket_index, bracket_count) ==
  IF bracket_index < Len(nested_tokens)
  THEN LET c == IF At(nested_tokens, bracket_index) = LPAR THEN bracket_count + 1
                ELSE IF At(nested_tokens, bracket_index) = RPAR THEN bracket_count - 1
                ELSE bracket_count
       IN IF c = 0 THEN bracket_index
          ELSE BracketIndex(nested_tokens, bracket_index + 1, c)
  ELSE bracket_index

\* add_extra_brackets never cleared
AddExtraBrackets_M(nested_tokens) == TRUE

\* add_extra_brackets after the scan
AddExtraBrackets(nested_tokens) ==
  IF nested_tokens[1] = LPAR
  THEN BracketIndex(nested_tokens, 1, 1) # Len(nested_tokens) - 1
  ELSE TRUE

\* the scan for the closing bracket of s[0]: <<end_index, bracket_count>>
\* when the loop ends
RECURSIVE ScanBracket(_, _, _)
ScanBracket(s, end_index, bracket_count) ==
  IF end_index < Len(s) /\ bracket_count # 0
  THEN ScanBracket(s, end_index + 1,
                   IF At(s, end_index) = "(" THEN bracket_count + 1
                   ELSE IF At(s, end_index) = ")" THEN bracket_count - 1
                   ELSE bracket_count)
  ELSE <<end_index, bracket_count>>

RECURSIVE parse_tokens_rec(_, _, _, _)

\* the test taken one character too far
NothingAfterVariable_M(s, end_index) == end_index + 2 >= Len(s)

\* the test for "No expression found after variable."
NothingAfterVariable(s, end_index) == end_index + 1 >= Len(s)

\* case 2: variables
CaseLambda(s, original, pos, association_type) ==
  LET end0 == ScanWhile(s, 1, var_chars)
  IN IF end0 = 1
     THEN Fail(Error(original, pos + 2, "No valid variable name found.", ""))
     ELSE IF At(s, 1) \notin alphabet_chars
     THEN Fail(Error(original, pos + 2, "Variable must start with a character.", ""))
     ELSE IF NothingAfterVariable(s, end0)
     THEN Fail(Error(original, pos + 2, "No expression found after variable.", ""))
     ELSE
       LET name == Slice(s, 1, end0)
           end1 == ScanWhile(s, end0, {" "})
           spaces_len == end1 - end0
           dot_expr == At(s, end1) = "."
       IN IF dot_expr /\ spaces_len > 0
          THEN Fail(Error(original, pos + end1,
                          "No spaces allowed between variable and dot.", ""))
          ELSE
            LET end_index == IF dot_expr THEN end1 + 1 ELSE end1
                nested == parse_tokens_rec(From(s, end_index), original,
                                           pos + end_index, association_type)
            IN IF ~nested.ok \/ nested.toks = <<>>
               THEN [ok |-> FALSE, toks |-> <<>>, out |-> nested.out]
               ELSE IF dot_expr /\ AddExtraBrackets(nested.toks)
               THEN [ok |-> TRUE,
                     toks |-> <<BSLASH, name, LPAR>> \o nested.toks \o <<RPAR>>,
                     out |-> nested.out]
               ELSE [ok |-> TRUE,
                     toks |-> <<BSLASH, name>> \o nested.toks,
                     out |-> nested.out]

\* the condition without its test of association_type
WrapGroup_M(s, end_index, association_type) == end_index + 1 < Len(s)

\* the condition of the extra pair around a bracket group and what follows
WrapGroup(s, end_index, association_type) ==
  end_index + 1 < Len(s) /\ Truthy(association_type)

\* case 3: brackets
CaseBracket(s, original, pos, association_type) ==
  LET scan == ScanBracket(s, 1, 1)
      end_index == scan[1]
      bracket_count == scan[2]
  IN IF bracket_count > 0
     THEN Fail(Error(original, pos + end_index,
                     "Expected closing parenthesis, found",
                     IF end_index < Len(s) - 1 THEN At(s, end_index + 1) ELSE "EOL"))
     ELSE IF end_index <= 2
     THEN Fail(Error(original, pos + 1, "Missing tokens between brackets.", ""))
     ELSE
       LET nested == parse_tokens_rec(Slice(s, 1, end_index - 1), original,
                                      pos + 1, association_type)
       IN IF ~nested.ok \/ nested.toks = <<>>
          THEN [ok |-> FALSE, toks |-> <<>>, out |-> nested.out]
          ELSE
            LET wrap == WrapGroup(s, end_index, association_type)
                group == (IF wrap THEN <<LPAR>> ELSE <<>>)
                           \o <<LPAR>> \o nested.toks \o <<RPAR>>
                close == IF wrap THEN <<RPAR>> ELSE <<>>
            IN IF end_index < Len(s)
               THEN LET additional == parse_tokens_rec(From(s, end_index), original,
                                                       pos + end_index, association_type)
                    IN IF ~additional.ok
                       THEN [ok |-> FALSE, toks |-> <<>>,
                             out |-> nested.out \o additional.out]
                       ELSE [ok |-> TRUE,
                             toks |-> group \o additional.toks \o close,
                             out |-> nested.out \o additional.out]
               ELSE [ok |-> TRUE, toks |-> group \o close, out |-> nested.out]

\* case 4: all other characters
CaseName(s, original, pos, association_type) ==
  IF s[1] \notin alphabet_chars
  THEN Fail(Error(original, pos + 1, "Name must start with a character.", ""))
  ELSE
    LET end_index == ScanWhile(s, 1, var_chars \cup {" "})
        split == Split(Strip(Slice(s, 0, end_index)))
        char_tokens == IF Truthy(association_type)
                       THEN add_associativity(split, association_type)
                       ELSE [toks |-> split, out |-> <<>>]
        additional == parse_tokens_rec(From(s, end_index), original,
                                       pos + end_index, association_type)
    IN IF ~additional.ok
       THEN [ok |-> FALSE, toks |-> <<>>, out |-> char_tokens.out \o additional.out]
       ELSE [ok |-> TRUE, toks |-> char_tokens.toks \o additional.toks,
             out |-> char_tokens.out \o additional.out]

parse_tokens_rec(s_, original, pos, association_type) ==
  LET s == Strip(s_)
  IN IF Len(s) = 0 THEN [ok |-> TRUE, toks |-> <<>>, out |-> <<>>]
     ELSE IF s[1] = " "
     THEN parse_tokens_rec(Tail(s), original, pos + 1, association_type)
     ELSE IF s[1] = "\\" THEN CaseLambda(s, original, pos, association_type)
     ELSE IF s[1] = "(" THEN CaseBracket(s, original, pos, association_type)
     ELSE IF s[1] \in var_chars THEN CaseName(s, original, pos, association_type)
     ELSE Fail(Error(original, pos + 1, "Unexpected token", s[1]))

parse_tokens(s_, association_type) == parse_tokens_rec(s_, s_, 0, association_type)

(***************************************************************************)
(* Node, ParseTree and build_parse_tree                                    *)
(*                                                                         *)
(* A Node is [elem, children].  A call returns [raised, node]: raised is   *)
(* TRUE when tokens[i] after a final '\' raises IndexError, which leaves   *)
(* no tree.                                                                *)
(***************************************************************************)
\* Node(elem), before any add_child_node
Node(elem) == [elem |-> elem, children |-> <<>>]

NoNode == Node(<<>>)
Raised == [raised |-> TRUE, node |-> NoNode]

\* the inner while loop: [i, subtree_tokens] when it ends
RECURSIVE ScanSubtree(_, _, _, _)
ScanSubtree(tokens, i, paren_count, subtree_tokens) ==
  IF i < Len(tokens) /\ paren_count > 0
  THEN LET c == IF At(tokens, i) = LPAR THEN paren_count + 1
                ELSE IF At(tokens, i) = RPAR THEN paren_count - 1
                ELSE paren_count
       IN ScanSubtree(tokens, i + 1, c,
                      IF c > 0 THEN Append(subtree_tokens, At(tokens, i))
                      ELSE subtree_tokens)
  ELSE [i |-> i, subtree_tokens |-> subtree_tokens]

\* one child holding the three, in place of the three
GroupChildren_M(subtree) ==
  <<[elem |-> subtree.elem,
     children |-> <<Node(<<LPAR>>), subtree, Node(<<RPAR>>)>>]>>

\* the children added for a bracket token, given the subtree of its interior
GroupChildren(subtree) == <<Node(<<LPAR>>), subtree, Node(<<RPAR>>)>>

RECURSIVE build_parse_tree_rec(_)

\* the outer while loop from index i on, children being those added so far
RECURSIVE BuildChildren(_, _, _)
BuildChildren(tokens, i, children) ==
  IF i < Len(tokens)
  THEN LET token == At(tokens, i)
       IN IF token = LPAR
          THEN LET scan == ScanSubtree(tokens, i + 1, 1, <<>>)
                   subtree == build_parse_tree_rec(scan.subtree_tokens)
               IN IF subtree.raised THEN Raised
                  ELSE BuildChildren(tokens, scan.i,
                                     children \o GroupChildren(subtree.node))
          ELSE IF token = BSLASH
          THEN IF i + 1 < Len(tokens)
               THEN BuildChildren(tokens, i + 2,
                                  Append(children, Node(<<BSLASH, At(tokens, i + 1)>>)))
               ELSE Raised
          ELSE BuildChildren(tokens, i + 1, Append(children, Node(<<token>>)))
  ELSE [raised |-> FALSE, node |-> [elem |-> <<>>, children |-> children]]

build_parse_tree_rec(tokens) ==
  LET built == BuildChildren(tokens, 0, <<>>)
  IN IF built.raised THEN Raised
     ELSE [raised |-> FALSE,
           node |-> [elem |-> <<JoinWith("_", tokens)>>,
                     children |-> built.node.children]]

\* ParseTree(root): the tree is its root node
build_parse_tree(tokens) == build_parse_tree_rec(tokens)

(***************************************************************************)
(* The checked inputs.                                                     *)
(***************************************************************************)
\* the characters of the free part of an input
Chars == {"a", "1", " ", "\t", "(", ")", ".", "\\"}

\* all sequences over S of length at most n
RECURSIVE SeqUpTo(_, _)
SeqUpTo(S, n) ==
  IF n = 0 THEN {<<>>}
  ELSE LET shorter == SeqUpTo(S, n - 1)
       IN shorter \cup {Append(q, c) : q \in shorter, c \in S}

\* fixed openings put before the free part: none, an abstraction with a
\* dot, a bracket group
Leads == {<<>>, <<"\\", "x", ".">>, <<"(", "a", ")">>}

\* the lines of the demonstration and of the documented examples
LambdaXY == <<"\\", "x", " ", "y">>
NestedDot == <<"\\", "x", ".", "\\", "y", " ", "(", "x", " ", "y", " ", "b", " ", "c", ")">>
Examples == {LambdaXY, NestedDot}

Inputs ==
  {lead \o body : lead \in Leads, body \in SeqUpTo(Chars, MaxLen)} \cup Examples

\* token lists for add_associativity
ChainTokens == {<<"a">>, <<"b">>, <<"c">>}
Chains == SeqUpTo(ChainTokens, MaxChain)

\* token lists for build_parse_tree
TreeTokens == {BSLASH, LPAR, RPAR, <<"x">>, <<"y">>}
TokenLists == SeqUpTo(TreeTokens, MaxToks)

NoResult == [ok |-> FALSE, toks |-> <<>>]
NoTree == [raised |-> FALSE, node |-> NoNode]

\* the return value of a call, without the printed lines
Returned(r) == [ok |-> r.ok, toks |-> r.toks]

(***************************************************************************)
(* Tokenizing a line.                                                      *)
(***************************************************************************)
Init ==
  /\ pc = "start"
  /\ input \in Inputs
  /\ mode = None
  /\ result = NoResult
  /\ out = <<>>
  /\ again = NoResult
  /\ toks = <<>>
  /\ tree = NoTree

\* tokens = parse_tokens(l, association_type)
Tokenize ==
  /\ pc = "start"
  /\ \E m \in Modes :
       LET r == parse_tokens(input, m)
       IN /\ mode' = m
          /\ result' = Returned(r)
          /\ out' = r.out
  /\ pc' = "tokenized"
  /\ UNCHANGED <<input, again, toks, tree>>

\* the returned tokens joined with single spaces and tokenized again
Retokenize ==
  /\ pc = "tokenized"
  /\ result.ok
  /\ mode = None
  /\ again' = Returned(parse_tokens(JoinWith(" ", result.toks), None))
  /\ pc' = "retokenized"
  /\ UNCHANGED <<input, mode, result, out, toks, tree>>

\* if tokens: parse_tree2 = build_parse_tree(tokens)
BuildTree ==
  /\ pc = "tokenized"
  /\ result.ok /\ result.toks # <<>>
  /\ mode = None
  /\ tree' = build_parse_tree(result.toks)
  /\ pc' = "built"
  /\ UNCHANGED <<input, mode, result, out, again, toks>>

Next == Tokenize \/ Retokenize \/ BuildTree

Spec == Init /\ [][Next]_vars

(***************************************************************************)
(* add_associativity called on a token list.                               *)
(***************************************************************************)
InitAssoc ==
  /\ pc = "start"
  /\ toks \in Chains
  /\ mode \in Modes \ {None}
  /\ input = <<>>
  /\ result = NoResult
  /\ out = <<>>
  /\ again = NoResult
  /\ tree = NoTree

\* associated_sample = add_associativity(sample, association_type=mode)
Associate ==
  /\ pc = "start"
  /\ LET r == add_associativity(toks, mode)
     IN /\ result' = [ok |-> TRUE, toks |-> r.toks]
        /\ out' = r.out
  /\ pc' = "associated"
  /\ UNCHANGED <<input, mode, again, toks, tree>>

NextAssoc == Associate

SpecAssoc == InitAssoc /\ [][NextAssoc]_vars

(***************************************************************************)
(* build_parse_tree called on a token list.                                *)
(***************************************************************************)
InitTree ==
  /\ pc = "start"
  /\ toks \in TokenLists
  /\ mode = None
  /\ input = <<>>
  /\ result = NoResult
  /\ out = <<>>
  /\ again = NoResult
  /\ tree = NoTree

\* parse_tree2 = build_parse_tree(tokens)
BuildFromTokens ==
  /\ pc = "start"
  /\ tree' = build_parse_tree(toks)
  /\ pc' = "built"
  /\ UNCHANGED <<input, mode, result, out, again, toks>>

NextTree == BuildFromTokens

SpecTree == InitTree /\ [][NextTree]_vars

(***************************************************************************)
(* Properties                                                              *)
(***************************************************************************)
Range(q) == {q[i] : i \in 1..Len(q)}

\* the "Error in [...] at position ..." lines among the printed lines
Errors(lines) == SelectSeq(lines, LAMBDA d : d.kind = "Error")

Tokenized == pc = "tokenized"
Accepted == Tokenized /\ result.ok

\* C1 as stated: whenever an input is accepted under mode None, the tokens
\* joined with single spaces are accepted again and give the same token list.
C1_Original ==
  pc = "retokenized" => (again.ok /\ again.toks = result.toks)

\* C1 as amended: the joined tokens are accepted again with the same token
\* list when the list holds no lambda marker, and are rejected when it holds
\* one (the name no longer follows its '\' immediately).
C1_Stable ==
  pc = "retokenized" =>
    IF BSLASH \in Range(result.toks)
    THEN ~again.ok
    ELSE again.ok /\ again.toks = result.toks

\* a bracket group followed by a name was joined and tokenized again
C1_Witness ==
  /\ pc = "retokenized"
  /\ result.toks = <<LPAR, <<"a">>, RPAR, <<"a">>>>
  /\ again = result

\* C2: the position of an "Unexpected token 'c'" line is the 1-based place
\* of c in the input, and the position of a "Name must start with a
\* character." line is the place of a digit of the input.
C2_Positions ==
  Tokenized =>
    \A i \in 1..Len(out) :
      LET d == out[i]
      IN /\ (d.kind = "Error" /\ d.msg = "Unexpected token") =>
              (d.pos \in 1..Len(input) /\ input[d.pos] = d.arg)
         /\ (d.kind = "Error" /\ d.msg = "Name must start with a character.") =>
              (d.pos \in 1..Len(input) /\ input[d.pos] \in numeric_chars)

\* C3: a call that returns False has printed exactly one Error line, a call
\* that returns a token list has printed none.
C3_OneDiagnostic ==
  Tokenized =>
    Len(Errors(out)) = (IF result.ok THEN 0 ELSE 1)

\* C4 as stated: "\x y" fails in every mode with "No expression found
\* after variable."
C4_Original ==
  (Tokenized /\ input = LambdaXY) =>
    /\ ~result.ok
    /\ Len(Errors(out)) = 1
    /\ Errors(out)[1].msg = "No expression found after variable."

\* C4 as amended: "\x y" is accepted in every mode with the tokens \, x, y
\* and no printed line; "No expression found after variable." is the
\* failure of an abstraction with at most one character after the bound
\* name, such as "\x.".
C4_LambdaXY ==
  /\ (Tokenized /\ input = LambdaXY) =>
       (result = [ok |-> TRUE, toks |-> <<BSLASH, <<"x">>, <<"y">>>>] /\ out = <<>>)
  /\ (Tokenized /\ input = <<"\\", "x", ".">>) =>
       /\ ~result.ok
       /\ out = <<Error(input, 2, "No expression found after variable.", "")>>

C4_Witness ==
  /\ Tokenized /\ input = LambdaXY /\ mode = "right"
  /\ result.toks = <<BSLASH, <<"x">>, <<"y">>>>

\* C6: under an unknown mode the call returns what it returns under None.
C6_UnknownAsNone ==
  (Tokenized /\ mode \notin {None, "left", "right"}) =>
    result = Returned(parse_tokens(input, None))

\* a returned token is '\', '(', ')' or a letter followed by letters and digits
IsIdentifier(tok) ==
  /\ Len(tok) >= 1
  /\ tok[1] \in alphabet_chars
  /\ \A i \in 1..Len(tok) : tok[i] \in var_chars

\* C8: every returned token is the lambda marker, a bracket or an identifier.
C8_TokenKinds ==
  Accepted =>
    \A i \in 1..Len(result.toks) :
      result.toks[i] \in {BSLASH, LPAR, RPAR} \/ IsIdentifier(result.toks[i])

\* brackets opened and not closed within the first k tokens of q
Depth(q, k) ==
  Cardinality({i \in 1..k : q[i] = LPAR}) - Cardinality({i \in 1..k : q[i] = RPAR})

Balanced(q) ==
  /\ \A k \in 1..Len(q) : Depth(q, k) >= 0
  /\ Depth(q, Len(q)) = 0

NonBrackets(q) == SelectSeq(q, LAMBDA tok : tok \notin {LPAR, RPAR})

\* ( ... ( s1 s2 ) s3 ) ... sn ), written out
LeftNested(s) ==
  LET n == Len(s)
  IN IF n <= 1 THEN s
     ELSE [k \in 1..(3 * n - 2) |->
             IF k <= n - 1 THEN LPAR
             ELSE IF k = n THEN s[1]
             ELSE IF (k - n) % 2 = 1 THEN s[1 + ((k - n + 1) \div 2)]
             ELSE RPAR]

\* ( s1 ( s2 ... ( s(n-1) sn ) ... ) ), written out
RightNested(s) ==
  LET n == Len(s)
  IN IF n <= 1 THEN s
     ELSE [k \in 1..(3 * n - 2) |->
             IF k <= 2 * (n - 1) THEN (IF k % 2 = 1 THEN LPAR ELSE s[k \div 2])
             ELSE IF k = 2 * n - 1 THEN s[n]
             ELSE RPAR]

ABC == <<<<"a">>, <<"b">>, <<"c">>>>

\* C7: add_associativity returns the fully left or right nested grouping:
\* lists of length 0 and 1 unchanged, balanced brackets, the input tokens
\* in their order, the input list as it was, and the two values of a b c.
C7_Nesting ==
  (pc = "associated" /\ mode \in {"left", "right"}) =>
    /\ result.toks = (IF mode = "left" THEN LeftNested(toks) ELSE RightNested(toks))
    /\ Len(toks) <= 1 => result.toks = toks
    /\ Balanced(result.toks)
    /\ NonBrackets(result.toks) = toks
    /\ (toks = ABC /\ mode = "left") =>
         result.toks = <<LPAR, LPAR, <<"a">>, <<"b">>, RPAR, <<"c">>, RPAR>>
    /\ (toks = ABC /\ mode = "right") =>
         result.toks = <<LPAR, <<"a">>, LPAR, <<"b">>, <<"c">>, RPAR, RPAR>>

C7_Witness ==
  /\ pc = "associated" /\ mode = "left" /\ toks = ABC
  /\ result.toks = <<LPAR, LPAR, <<"a">>, <<"b">>, RPAR, <<"c">>, RPAR>>

LambdaGroup == <<BSLASH, <<"x">>, LPAR, <<"y">>, RPAR>>

\* C5 as stated, on its example: the root of \ x ( y ) has two children, the
\* \x leaf and one node for the bracket group with the three children
\* '(' leaf, subtree of y, ')' leaf.
C5_Original ==
  (pc = "built" /\ toks = LambdaGroup) =>
    /\ ~tree.raised
    /\ Len(tree.node.children) = 2
    /\ tree.node.children[1] = Node(<<BSLASH, <<"x">>>>)
    /\ Len(tree.node.children[2].children) = 3
    /\ tree.node.children[2].children[1] = Node(<<LPAR>>)
    /\ tree.node.children[2].children[3] = Node(<<RPAR>>)

\* a token list with balanced brackets in which a name follows every '\'
WellFormed(q) ==
  /\ Balanced(q)
  /\ \A i \in 1..Len(q) :
       q[i] = BSLASH => (i < Len(q) /\ q[i + 1] \notin {BSLASH, LPAR, RPAR})

\* the positions of q outside every bracket group
TopLevel(q) == {j \in 1..Len(q) : Depth(q, j - 1) = 0}
TopBrackets(q) == {j \in TopLevel(q) : q[j] = LPAR}
TopBinders(q) == {j \in TopLevel(q) : q[j] = BSLASH}
TopNames(q) ==
  {j \in TopLevel(q) : q[j] \notin {BSLASH, LPAR, RPAR} /\ (j = 1 \/ q[j - 1] # BSLASH)}

\* the place of the ')' that closes the '(' at p
Closing(q, p) ==
  CHOOSE k \in (p + 1)..Len(q) :
    /\ Depth(q, k) = Depth(q, p - 1)
    /\ \A j \in (p + 1)..(k - 1) : Depth(q, j) # Depth(q, p - 1)

\* the number of children the items before position p give the node
ChildrenBefore(q, p) ==
  3 * Cardinality({j \in TopBrackets(q) : j < p})
    + Cardinality({j \in TopBinders(q) : j < p})
    + Cardinality({j \in TopNames(q) : j < p})

\* C5 as amended: a bracket group gives the node being built three
\* consecutive children of its own, in order the '(' leaf, the subtree built
\* from the tokens strictly inside the brackets, the ')' leaf; a binder and
\* a name give one leaf each.  The root of \ x ( y ) has four children: the
\* \x leaf, the '(' leaf, the subtree of y, the ')' leaf.
C5_Groups ==
  (pc = "built" /\ WellFormed(toks)) =>
    /\ ~tree.raised
    /\ Len(tree.node.children) = ChildrenBefore(toks, Len(toks) + 1)
    /\ \A p \in TopBrackets(toks) :
         LET c == ChildrenBefore(toks, p)
             inside == SubSeq(toks, p + 1, Closing(toks, p) - 1)
         IN /\ tree.node.children[c + 1] = Node(<<LPAR>>)
            /\ tree.node.children[c + 2] = build_parse_tree_rec(inside).node
            /\ tree.node.children[c + 2].elem = <<JoinWith("_", inside)>>
            /\ tree.node.children[c + 3] = Node(<<RPAR>>)
    /\ toks = LambdaGroup =>
         tree.node.children =
           <<Node(<<BSLASH, <<"x">>>>), Node(<<LPAR>>),
             [elem |-> <<<<"y">>>>, children |-> <<Node(<<<<"y">>>>)>>],
             Node(<<RPAR>>)>>

C5_Witness ==
  /\ pc = "built" /\ toks = LambdaGroup
  /\ Len(tree.node.children) = 4
  /\ tree.node.children[3].children = <<Node(<<<<"y">>>>)>>

\* the tokens a call under the mode of the state returns for the string x
Tokens(x) == parse_tokens(x, mode).toks

\* round brackets opened and not closed within the first k characters of s
CharDepth(s, k) ==
  Cardinality({i \in 1..k : s[i] = "("}) - Cardinality({i \in 1..k : s[i] = ")"})

\* the place of the ')' that closes the '(' at the start of s
GroupEnd(s) ==
  CHOOSE k \in 2..Len(s) :
    CharDepth(s, k) = 0 /\ \A j \in 1..(k - 1) : CharDepth(s, j) # 0

\* C9: for an accepted input '(' interior ')' rest with rest not blank, the
\* modes left and right return ( ( interior ) rest ) and mode None returns
\* ( interior ) rest; with nothing after the group every mode returns
\* ( interior ).
C9_Wrap ==
  (Accepted /\ Len(Strip(input)) > 0 /\ Strip(input)[1] = "(") =>
    LET s == Strip(input)
        e == GroupEnd(s)
        interior == SubSeq(s, 2, e - 1)
        rest == SubSeq(s, e + 1, Len(s))
        group == <<LPAR>> \o Tokens(interior) \o <<RPAR>>
    IN IF Strip(rest) # <<>>
       THEN /\ mode \in {"left", "right"} =>
                 result.toks = <<LPAR>> \o group \o Tokens(rest) \o <<RPAR>>
            /\ mode = None => result.toks = group \o Tokens(rest)
       ELSE result.toks = group

\* the place of the last character of the name that starts at s[2]
NameEnd(s) ==
  CHOOSE k \in 1..Len(s) :
    /\ \A j \in 2..k : s[j] \in var_chars
    /\ k < Len(s) => s[k + 1] \notin var_chars

\* the token list B starts with a '(' whose matching ')' is its last token
Spans(B) ==
  /\ Len(B) >= 1 /\ B[1] = LPAR
  /\ \E k \in 1..Len(B) : Depth(B, k) = 0
  /\ \A k \in 1..(Len(B) - 1) : Depth(B, k) # 0

\* C10: for an accepted input '\' name '.' body with B the tokens of body,
\* the call returns \ name B when B starts with a '(' whose matching ')' is
\* the last token of B and \ name ( B ) otherwise; without a dot it returns
\* \ name followed by the tokens of what follows, no bracket added; a '.' is
\* never a token; "\x.\y (x y b c)" under None gives \ x ( \ y ( x y b c ) ).
C10_Dot ==
  /\ Accepted => <<".">> \notin Range(result.toks)
  /\ (Accepted /\ Len(Strip(input)) > 0 /\ Strip(input)[1] = "\\") =>
       LET s == Strip(input)
           n == NameEnd(s)
           name == SubSeq(s, 2, n)
       IN IF s[n + 1] = "."
          THEN LET B == Tokens(SubSeq(s, n + 2, Len(s)))
               IN result.toks = (IF Spans(B)
                                 THEN <<BSLASH, name>> \o B
                                 ELSE <<BSLASH, name, LPAR>> \o B \o <<RPAR>>)
          ELSE result.toks = <<BSLASH, name>> \o Tokens(SubSeq(s, n + 1, Len(s)))
  /\ (Accepted /\ input = NestedDot /\ mode = None) =>
       result.toks = <<BSLASH, <<"x">>, LPAR, BSLASH, <<"y">>, LPAR,
                       <<"x">>, <<"y">>, <<"b">>, <<"c">>, RPAR, RPAR>>

\* a dot body that is one bracket group: no pair added
C10_Witness ==
  /\ Accepted
  /\ input = <<"\\", "x", ".", "(", "a", ")">>
  /\ result.toks = <<BSLASH, <<"x">>, LPAR, <<"a">>, RPAR>>

====
